---- MODULE Spec2Model ----
(***************************************************************************)
(* Model of the weather MCP server: the daily forecast aggregation of      *)
(* models/weather_models.py and services/weather_service.py, and the three *)
(* tool handlers of main.py with the services they call.                   *)
(*                                                                         *)
(* Temperatures are counted in half degrees (3 stands for 1.5 degrees), so *)
(* that round() of services/weather_service.py is a real conversion.       *)
(* Calendar dates are day numbers; the 'YYYY-MM-DD' keys of get_forecast   *)
(* sort as their day numbers do.                                           *)
(***************************************************************************)
EXTENDS Integers, Sequences, FiniteSets, TLC

VARIABLES
    feed,             \* forecast samples handed to the aggregation, in feed order
    summaries,        \* outcome of WeatherForecastData.get_daily_summaries on feed
    daily_forecasts,  \* outcome of the aggregation loop of WeatherService.get_forecast on feed
    weather_api_key,  \* WeatherService._api_key
    ai_api_key,       \* AIService._api_key
    weather_session,  \* WeatherService._session is not None
    ai_session,       \* AIService._session is not None
    store_calls,      \* per secret name, the calls of KeyVaultService.get_secret so far
    store_fetches,    \* per secret name, the calls that returned the secret value
    tasks,            \* the tool invocations in progress: position and locals of each
    loop,             \* the task holding the event loop, 0 when it is free
    completed,        \* the invocation that returned last, with its reply
    built             \* the last construction of a validated model object, with its outcome

aggVars == <<feed, summaries, daily_forecasts>>
toolVars == <<weather_api_key, ai_api_key, weather_session, ai_session,
              store_calls, store_fetches, tasks, loop, completed>>
modelVars == <<built>>
vars == <<feed, summaries, daily_forecasts, weather_api_key, ai_api_key,
          weather_session, ai_session, store_calls, store_fetches, tasks, loop,
          completed, built>>

-----------------------------------------------------------------------------
(* Bounds of the explored inputs *)

MaxDate == 6          \* dates 1..MaxDate in the truncation feeds
MaxTempDate == 2      \* dates 1..MaxTempDate in the temperature feeds
MaxHalf == 2          \* temperatures 0..MaxHalf half degrees
MaxLen == 3           \* longest temperature or condition feed
MaxTasks == 2         \* tool invocations in progress at once
MaxStoreFailures == 1 \* failing answers of the secret store, per secret
MaxBeyond == 2        \* coordinates reach MaxBeyond degrees to each side of a boundary
MaxSummaries == 6     \* longest summary list handed to WeatherForecast
MaxNarrative == 2     \* longest narrative text handed to WeatherForecast

(* Program constants *)

EXPECTED_FORECAST_DAYS == 5
SummaryLimit == 5

Descriptions == {"rain", "clear", "cloudy"}

-----------------------------------------------------------------------------
(* Helpers standing for Python built-ins *)

MaxOf(S) == CHOOSE m \in S : \A x \in S : x <= m
MinOf(S) == CHOOSE m \in S : \A x \in S : m <= x

\* round(h / 2) of Python 3: to the nearest integer, ties to the even one
Round(h) ==
    IF h % 2 = 0 THEN h \div 2
    ELSE IF (h \div 2) % 2 = 0 THEN h \div 2 ELSE (h \div 2) + 1

RECURSIVE SortedSeq(_)
\* sorted(keys): ascending sequence of the elements of S
SortedSeq(S) ==
    IF S = {} THEN <<>>
    ELSE LET m == MinOf(S) IN <<m>> \o SortedSeq(S \ {m})

RECURSIVE Perms(_)
\* list(set(...)): every iteration order of the set S
Perms(S) ==
    IF S = {} THEN {<<>>}
    ELSE UNION {{<<x>> \o p : p \in Perms(S \ {x})} : x \in S}

\* a slice that keeps the last n elements
TakeLast(s, n) == SubSeq(s, IF Len(s) < n THEN 1 ELSE Len(s) - n + 1, Len(s))

\* s[:n]
Take(s, n) == SubSeq(s, 1, IF Len(s) < n THEN Len(s) ELSE n)

RECURSIVE JoinWith(_, _)
\* sep.join(s)
JoinWith(sep, s) ==
    IF s = <<>> THEN ""
    ELSE IF Len(s) = 1 THEN s[1]
    ELSE s[1] \o sep \o JoinWith(sep, Tail(s))

-----------------------------------------------------------------------------
(* models/weather_models.py *)

Raised(exc) == [state |-> "raised", exc |-> exc]
Returned(v) == [state |-> "returned", value |-> v]
Unset == [state |-> "unset"]

\* DailyWeatherSummary(...) with __post_init__
DailyWeatherSummary(d, maxt, mint, conds) ==
    IF maxt < mint THEN Raised("ValueError")
    ELSE IF conds = <<>> THEN Raised("ValueError")
    ELSE Returned([date |-> d, max_temperature |-> maxt,
                   min_temperature |-> mint, weather_conditions |-> conds])

RECURSIVE Unique(_, _)
\* the loop of conditions_summary: drop repeats, keep first-seen order
Unique(conds, acc) ==
    IF conds = <<>> THEN acc
    ELSE IF \E i \in DOMAIN acc : acc[i] = Head(conds)
         THEN Unique(Tail(conds), acc)
         ELSE Unique(Tail(conds), Append(acc, Head(conds)))

conditions_summary(weather_conditions) ==
    IF weather_conditions = <<>> THEN "unknown"
    ELSE LET unique_conditions == Unique(weather_conditions, <<>>)
             n == Len(unique_conditions)
         IN IF n = 1 THEN unique_conditions[1]
            ELSE IF n = 2 THEN unique_conditions[1] \o " and " \o unique_conditions[2]
            ELSE JoinWith(", ", SubSeq(unique_conditions, 1, n - 1))
                     \o ", and " \o unique_conditions[n]

\* daily_data[d]: the samples of date d, in feed order
GroupOf(f, d) == SelectSeq(f, LAMBDA c : c.date = d)

\* a grouping that loses the dates holding a single sample
DatesOfRepeated(f) ==
    {f[i].date : i \in {j \in DOMAIN f : \E k \in DOMAIN f : k # j /\ f[k].date = f[j].date}}

\* the keys of daily_data
DatesOf(f) == {f[i].date : i \in DOMAIN f}

\* one pass of the summary loop: the possible DailyWeatherSummary outcomes for
\* date d, one per iteration order of the description set
DayOutcomes(f, d) ==
    LET conditions == GroupOf(f, d)
        max_temp == MaxOf({conditions[i].temp_max : i \in DOMAIN conditions})
        min_temp == MinOf({conditions[i].temp_min : i \in DOMAIN conditions})
    IN {DailyWeatherSummary(d, max_temp, min_temp, descriptions) :
          descriptions \in Perms({conditions[i].description : i \in DOMAIN conditions})}

RECURSIVE SummaryLists(_, _)
\* the lists the summary loop can build over the sorted dates ds; a raising
\* constructor ends the loop
SummaryLists(f, ds) ==
    IF ds = <<>> THEN {Returned(<<>>)}
    ELSE UNION {
           IF o.state = "raised" THEN {o}
           ELSE {IF r.state = "raised" THEN r
                 ELSE Returned(<<o.value>> \o r.value) : r \in SummaryLists(f, Tail(ds))}
           : o \in DayOutcomes(f, Head(ds))}

\* WeatherForecastData.get_daily_summaries: every outcome it can have on f
get_daily_summaries(f) ==
    {IF r.state = "raised" THEN r ELSE Returned(Take(r.value, SummaryLimit)) :
       r \in SummaryLists(f, SortedSeq(DatesOf(f)))}

-----------------------------------------------------------------------------
(* services/weather_service.py: the aggregation inside get_forecast *)

\* the dict appended for one date, one per iteration order of the description set
DayForecasts(f, d) ==
    LET entries == GroupOf(f, d)
        temp_highs == {entries[i].temp_max : i \in DOMAIN entries}
        temp_lows == {entries[i].temp_min : i \in DOMAIN entries}
    IN {[date |-> d,
         temp_high |-> Round(MaxOf(temp_highs)),
         temp_low |-> Round(MinOf(temp_lows)),
         description |-> JoinWith(", ", descriptions)] :
          descriptions \in Perms({entries[i].description : i \in DOMAIN entries})}

RECURSIVE ForecastLoop(_, _, _)
\* the loop over sorted(daily_data.items()), leaving it once
\* EXPECTED_FORECAST_DAYS entries are collected
ForecastLoop(f, ds, acc) ==
    IF ds = <<>> THEN {acc}
    ELSE IF Len(acc) >= EXPECTED_FORECAST_DAYS THEN {acc}
    ELSE UNION {ForecastLoop(f, Tail(ds), Append(acc, e)) : e \in DayForecasts(f, Head(ds))}

\* every list the grouping and aggregation of get_forecast can return on data["list"] = f
AggregateForecast(f) == ForecastLoop(f, SortedSeq(DatesOf(f)), <<>>)

-----------------------------------------------------------------------------
(* config/settings.py and the retry strategy of the two services *)

OPENWEATHER_API_KEY_SECRET == "OWM-API-KEY"
OPENAI_API_KEY_SECRET == "OPENAI-API-KEY"
SecretNames == {OPENWEATHER_API_KEY_SECRET, OPENAI_API_KEY_SECRET}

\* Retry(total=3, backoff_factor=1, status_forcelist=[429, 500, 502, 503, 504])
RetryTotal == 3
StatusForcelist == {429, 500, 502, 503, 504}
\* Retry is built without allowed_methods: urllib3's default set applies
AllowedMethods == {"HEAD", "GET", "PUT", "DELETE", "OPTIONS", "TRACE"}

\* what one request can meet: no connection (Refused) or a response status
Refused == 0
HttpOutcomes == {Refused, 200, 401, 404} \cup StatusForcelist

-----------------------------------------------------------------------------
(* The tool invocations *)

Tasks == 1..MaxTasks
Tools == {"get_current_weather", "get_weather_forecast", "get_weather_insights"}
Location == "Seattle"
None == "None"

NoExc == [type |-> "none", msg |-> "", status |-> 0]
Exc(type, msg, status) == [type |-> type, msg |-> msg, status |-> status]

IdleTask ==
    [tool |-> "none", pc |-> "idle", op |-> "none", attempts |-> 0, status |-> 0,
     exc |-> NoExc, raised |-> NoExc, weather_data |-> Unset,
     forecast_data |-> Unset, reply |-> Unset]

\* the first service operation a tool handler awaits
FirstOp(tool) == IF tool = "get_weather_forecast" THEN "forecast" ELSE "current"

\* session.get in WeatherService, session.post in AIService
MethodOf(op) == IF op = "insights" THEN "POST" ELSE "GET"

SecretNameOf(op) ==
    IF op = "insights" THEN OPENAI_API_KEY_SECRET ELSE OPENWEATHER_API_KEY_SECRET

\* self._api_key of the service that runs op
KeyOf(op) == IF op = "insights" THEN ai_api_key ELSE weather_api_key

\* secret.value as the vault holds it
SecretValue(name) == "value of " \o name

\* str.title() on the descriptions the provider sends
Title(d) ==
    CASE d = "light rain" -> "Light Rain"
      [] d = "rain" -> "Rain"
      [] d = "clear" -> "Clear"
      [] d = "cloudy" -> "Cloudy"

\* data["main"]["temp"] of the current-weather payloads, in half degrees
PayloadTemps == {1, 3}

\* the dict get_current_weather returns for a payload with temperature h
CurrentWeatherDict(h) ==
    [location |-> Location, temp |-> Round(h), feels_like |-> Round(h),
     description |-> Title("light rain")]

\* a forecast payload covering n dates, one sample each, latest date first
RECURSIVE FeedOfDays(_)
FeedOfDays(n) ==
    IF n = 0 THEN <<>>
    ELSE <<[date |-> n, temp_min |-> 0, temp_max |-> 1, description |-> "rain"]>>
           \o FeedOfDays(n - 1)

\* a coroutine that would hand the event loop back while it waits
AwaitSuspendsAlways(callee) == TRUE

\* whether awaiting callee hands the event loop to other tasks:
\* KeyVaultService.get_secret calls the vault client synchronously and holds
\* no await of its own, so the awaiting task keeps the loop
AwaitSuspends(callee) == FALSE

\* task t may take its next step: it holds the loop, or the loop is free
Runs(t) == loop = t \/ loop = 0

\* a handler whose except clause names RuntimeError only: another exception
\* leaves the handler
ToolExceptRuntimeOnly(k, e) ==
    IF e.type = "RuntimeError"
    THEN [k EXCEPT !.pc = "done", !.raised = e,
            !.reply = [outcome |-> "failure", head |-> "Unable to complete: ",
                       reason |-> e.msg]]
    ELSE [k EXCEPT !.pc = "done", !.raised = e,
            !.reply = [outcome |-> "unhandled", head |-> "", reason |-> ""]]

\* the except clause of a tool handler: the reply embeds str(e)
ToolExcept(k, e) ==
    [k EXCEPT !.pc = "done", !.raised = e,
       !.reply = [outcome |-> "failure",
                  head |-> (CASE k.tool = "get_current_weather" -> "Unable to get weather for "
                              [] k.tool = "get_weather_forecast" -> "Unable to get forecast for "
                              [] k.tool = "get_weather_insights" -> "Unable to generate insights for ")
                           \o Location \o ": ",
                  reason |-> e.msg]]

\* an insights handler that goes from the current conditions straight to the
\* narrative
ToolResumeSkipsForecast(k, v) ==
    CASE k.tool = "get_current_weather" ->
           [k EXCEPT !.pc = "done", !.weather_data = Returned(v),
              !.reply = [outcome |-> "success",
                         head |-> "Current weather in " \o Location \o ":",
                         temp |-> v.temp, description |-> v.description]]
      [] k.tool = "get_weather_forecast" ->
           [k EXCEPT !.pc = "done", !.forecast_data = Returned(v),
              !.reply = [outcome |-> "success",
                         head |-> "5-day forecast for " \o Location \o ":",
                         lines |-> v]]
      [] k.tool = "get_weather_insights" /\ k.op = "current" ->
           [k EXCEPT !.weather_data = Returned(v), !.op = "insights", !.pc = "key"]
      [] k.tool = "get_weather_insights" /\ k.op = "forecast" ->
           [k EXCEPT !.forecast_data = Returned(v), !.op = "insights", !.pc = "key"]
      [] k.tool = "get_weather_insights" /\ k.op = "insights" ->
           [k EXCEPT !.pc = "done",
              !.reply = [outcome |-> "success",
                         head |-> "Weather insights for " \o Location \o ":",
                         insights |-> v]]

\* the tool handler resumes with the value v its awaited operation returned
ToolResume(k, v) ==
    CASE k.tool = "get_current_weather" ->
           [k EXCEPT !.pc = "done", !.weather_data = Returned(v),
              !.reply = [outcome |-> "success",
                         head |-> "Current weather in " \o Location \o ":",
                         temp |-> v.temp, description |-> v.description]]
      [] k.tool = "get_weather_forecast" ->
           [k EXCEPT !.pc = "done", !.forecast_data = Returned(v),
              !.reply = [outcome |-> "success",
                         head |-> "5-day forecast for " \o Location \o ":",
                         lines |-> v]]
      [] k.tool = "get_weather_insights" /\ k.op = "current" ->
           [k EXCEPT !.weather_data = Returned(v), !.op = "forecast", !.pc = "key"]
      [] k.tool = "get_weather_insights" /\ k.op = "forecast" ->
           [k EXCEPT !.forecast_data = Returned(v), !.op = "insights", !.pc = "key"]
      [] k.tool = "get_weather_insights" /\ k.op = "insights" ->
           [k EXCEPT !.pc = "done",
              !.reply = [outcome |-> "success",
                         head |-> "Weather insights for " \o Location \o ":",
                         insights |-> v]]

\* the return of the except clause of generate_weather_insights
FallbackInsights(current_weather) ==
    [source |-> "fallback",
     head |-> "Weather analysis unavailable. Current conditions: ",
     temp |-> current_weather.temp, description |-> current_weather.description]

\* service operations that all re-raise, narrative generation included
ServiceExceptAlwaysRaises(k) ==
    ToolExcept(k, Exc("RuntimeError", "Unable to complete " \o k.op \o " for " \o Location, 0))

\* the except clauses of the service operation k.op, entered with k.exc
ServiceExceptClause(k) ==
    CASE k.op = "current" ->
           IF k.exc.type = "HTTPError"
           THEN IF k.exc.status = 404
                THEN ToolExcept(k, Exc("ValueError",
                                       "Location '" \o Location \o "' not found", 0))
                ELSE ToolExcept(k, Exc("RuntimeError",
                                       "Weather service unavailable: " \o ToString(k.exc.status), 0))
           ELSE ToolExcept(k, Exc("RuntimeError", "Unable to get weather for " \o Location, 0))
      [] k.op = "forecast" ->
           ToolExcept(k, Exc("RuntimeError", "Unable to get forecast for " \o Location, 0))
      [] k.op = "insights" ->
           ToolResume(k, FallbackInsights(k.weather_data.value))

\* the handler of task t goes on as k2, or has returned: its reply is
\* delivered, the loop is released and the task ends
Continue(t, k2) ==
    IF k2.pc = "done"
    THEN /\ tasks' = [tasks EXCEPT ![t] = IdleTask]
         /\ loop' = 0
         /\ completed' = [k2 EXCEPT !.attempts = 0, !.status = 0]
    ELSE /\ tasks' = [tasks EXCEPT ![t] = k2]
         /\ loop' = t
         /\ UNCHANGED completed

\* the tool-invocation layer calls a tool handler when the loop is free; the
\* handler runs up to the await of its first service operation
Invoke(t) ==
    /\ tasks[t].pc = "idle"
    /\ loop = 0
    /\ \E tool \in Tools :
         tasks' = [tasks EXCEPT ![t] =
                     [IdleTask EXCEPT !.tool = tool, !.op = FirstOp(tool), !.pc = "key"]]
    /\ loop' = t
    /\ UNCHANGED <<weather_api_key, ai_api_key, weather_session, ai_session,
                   store_calls, store_fetches, completed>>
    /\ UNCHANGED aggVars
    /\ UNCHANGED modelVars

\* _get_api_key: the test of self._api_key and the await of get_secret
GetApiKey(t) ==
    /\ tasks[t].pc = "key"
    /\ Runs(t)
    /\ IF KeyOf(tasks[t].op) # None
       THEN /\ tasks' = [tasks EXCEPT ![t].pc = "session"]
            /\ loop' = t
       ELSE /\ tasks' = [tasks EXCEPT ![t].pc = "get_secret"]
            /\ loop' = IF AwaitSuspends("get_secret") THEN 0 ELSE t
    /\ UNCHANGED <<weather_api_key, ai_api_key, weather_session, ai_session,
                   store_calls, store_fetches, completed>>
    /\ UNCHANGED aggVars
    /\ UNCHANGED modelVars

\* a _get_api_key that stores the failure of the store as the key
GetSecretStoresFailure(t) ==
    /\ tasks[t].pc = "get_secret"
    /\ Runs(t)
    /\ LET name == SecretNameOf(tasks[t].op)
       IN /\ store_calls' = [store_calls EXCEPT ![name] = @ + 1]
          /\ \/ /\ store_fetches' = [store_fetches EXCEPT ![name] = @ + 1]
                /\ IF tasks[t].op = "insights"
                   THEN ai_api_key' = SecretValue(name) /\ UNCHANGED weather_api_key
                   ELSE weather_api_key' = SecretValue(name) /\ UNCHANGED ai_api_key
                /\ tasks' = [tasks EXCEPT ![t].pc = "session"]
             \/ /\ store_calls[name] - store_fetches[name] < MaxStoreFailures
                /\ tasks' = [tasks EXCEPT ![t].pc = "except",
                               ![t].exc = Exc("RuntimeError",
                                              "Unable to retrieve secret " \o name, 0)]
                /\ IF tasks[t].op = "insights"
                   THEN ai_api_key' = "Unable to retrieve secret " \o name
                        /\ UNCHANGED weather_api_key
                   ELSE weather_api_key' = "Unable to retrieve secret " \o name
                        /\ UNCHANGED ai_api_key
                /\ UNCHANGED store_fetches
    /\ loop' = t
    /\ UNCHANGED <<weather_session, ai_session, completed>>
    /\ UNCHANGED aggVars
    /\ UNCHANGED modelVars

\* KeyVaultService.get_secret answers and _get_api_key stores the value
GetSecret(t) ==
    /\ tasks[t].pc = "get_secret"
    /\ Runs(t)
    /\ LET name == SecretNameOf(tasks[t].op)
       IN /\ store_calls' = [store_calls EXCEPT ![name] = @ + 1]
          /\ \/ /\ store_fetches' = [store_fetches EXCEPT ![name] = @ + 1]
                /\ IF tasks[t].op = "insights"
                   THEN ai_api_key' = SecretValue(name) /\ UNCHANGED weather_api_key
                   ELSE weather_api_key' = SecretValue(name) /\ UNCHANGED ai_api_key
                /\ tasks' = [tasks EXCEPT ![t].pc = "session"]
             \/ /\ store_calls[name] - store_fetches[name] < MaxStoreFailures
                /\ tasks' = [tasks EXCEPT ![t].pc = "except",
                               ![t].exc = Exc("RuntimeError",
                                              "Unable to retrieve secret " \o name, 0)]
                /\ UNCHANGED <<store_fetches, weather_api_key, ai_api_key>>
    /\ loop' = t
    /\ UNCHANGED <<weather_session, ai_session, completed>>
    /\ UNCHANGED aggVars
    /\ UNCHANGED modelVars

\* _create_session: the session is built on first use, then reused
CreateSession(t) ==
    /\ tasks[t].pc = "session"
    /\ Runs(t)
    /\ IF tasks[t].op = "insights"
       THEN ai_session' = TRUE /\ UNCHANGED weather_session
       ELSE weather_session' = TRUE /\ UNCHANGED ai_session
    /\ tasks' = [tasks EXCEPT ![t].pc = "send", ![t].attempts = 0, ![t].status = 0]
    /\ loop' = t
    /\ UNCHANGED <<weather_api_key, ai_api_key, store_calls, store_fetches, completed>>
    /\ UNCHANGED aggVars
    /\ UNCHANGED modelVars

\* Retry.is_retry for a response, and the retry of a refused connection
IsRetry(method, outcome) ==
    \/ outcome = Refused
    \/ method \in AllowedMethods /\ outcome \in StatusForcelist

\* one request of session.get / session.post through the retrying adapter
HttpAttempt(t) ==
    /\ tasks[t].pc = "send"
    /\ Runs(t)
    /\ \E outcome \in HttpOutcomes :
         LET sent == tasks[t].attempts + 1
             k == [tasks[t] EXCEPT !.attempts = sent]
         IN tasks' = [tasks EXCEPT ![t] =
              IF IsRetry(MethodOf(k.op), outcome)
              THEN IF sent <= RetryTotal
                   THEN k
                   ELSE [k EXCEPT !.pc = "except", !.status = outcome,
                           !.exc = Exc(IF outcome = Refused THEN "ConnectionError"
                                       ELSE "RetryError", "Max retries exceeded", 0)]
              ELSE [k EXCEPT !.pc = "raise_for_status", !.status = outcome]]
    /\ loop' = t
    /\ UNCHANGED <<weather_api_key, ai_api_key, weather_session, ai_session,
                   store_calls, store_fetches, completed>>
    /\ UNCHANGED aggVars
    /\ UNCHANGED modelVars

\* response.raise_for_status()
RaiseForStatus(t) ==
    /\ tasks[t].pc = "raise_for_status"
    /\ Runs(t)
    /\ tasks' = [tasks EXCEPT ![t] =
         IF tasks[t].status >= 400
         THEN [tasks[t] EXCEPT !.pc = "except",
                 !.exc = Exc("HTTPError", ToString(tasks[t].status) \o " Error", tasks[t].status)]
         ELSE [tasks[t] EXCEPT !.pc = "parse"]]
    /\ loop' = t
    /\ UNCHANGED <<weather_api_key, ai_api_key, weather_session, ai_session,
                   store_calls, store_fetches, completed>>
    /\ UNCHANGED aggVars
    /\ UNCHANGED modelVars

\* response.json() and the reading of the payload, up to the return
ParseResponse(t) ==
    /\ tasks[t].pc = "parse"
    /\ Runs(t)
    /\ LET k == tasks[t]
       IN \E k2 \in
            {[k EXCEPT !.pc = "except", !.exc = Exc("KeyError", "malformed payload", 0)]}
            \cup (CASE k.op = "current" ->
                         {ToolResume(k, CurrentWeatherDict(h)) : h \in PayloadTemps}
                    [] k.op = "forecast" ->
                         UNION {{ToolResume(k, r) : r \in AggregateForecast(FeedOfDays(n))}
                                  : n \in (EXPECTED_FORECAST_DAYS - 1)..MaxDate}
                    [] k.op = "insights" ->
                         {ToolResume(k, [source |-> "model", content |-> "narrative"])}) :
            Continue(t, k2)
    /\ UNCHANGED <<weather_api_key, ai_api_key, weather_session, ai_session,
                   store_calls, store_fetches>>
    /\ UNCHANGED aggVars
    /\ UNCHANGED modelVars

\* the except clauses of the service operation, and of the tool handler
ServiceExcept(t) ==
    /\ tasks[t].pc = "except"
    /\ Runs(t)
    /\ Continue(t, ServiceExceptClause(tasks[t]))
    /\ UNCHANGED <<weather_api_key, ai_api_key, weather_session, ai_session,
                   store_calls, store_fetches>>
    /\ UNCHANGED aggVars
    /\ UNCHANGED modelVars

NextTools ==
    \E t \in Tasks :
      \/ Invoke(t)
      \/ GetApiKey(t)
      \/ GetSecret(t)
      \/ CreateSession(t)
      \/ HttpAttempt(t)
      \/ RaiseForStatus(t)
      \/ ParseResponse(t)
      \/ ServiceExcept(t)

-----------------------------------------------------------------------------
(* The sample feeds explored *)

\* a truncation feed holds up to one sample more than the horizon
TruncFeedLen == EXPECTED_FORECAST_DAYS + 1

TruncSamples ==
    {[date |-> d, temp_min |-> 0, temp_max |-> 1, description |-> "rain"] : d \in 1..MaxDate}

TempSamples ==
    [date : 1..MaxTempDate, temp_min : 0..MaxHalf, temp_max : 0..MaxHalf,
     description : {"rain"}]

CondSamples ==
    [date : {1}, temp_min : {0}, temp_max : {1}, description : Descriptions]

Init ==
    /\ feed = <<>>
    /\ summaries = Unset
    /\ daily_forecasts = Unset
    /\ weather_api_key = None
    /\ ai_api_key = None
    /\ weather_session = FALSE
    /\ ai_session = FALSE
    /\ store_calls = [n \in SecretNames |-> 0]
    /\ store_fetches = [n \in SecretNames |-> 0]
    /\ tasks = [t \in Tasks |-> IdleTask]
    /\ loop = 0
    /\ completed = IdleTask
    /\ built = [cls |-> "none", args |-> <<>>, outcome |-> Unset]

Building == summaries = Unset /\ daily_forecasts = Unset

\* the provider's feed grows by one sample of the truncation family
AddTruncSample ==
    /\ Building
    /\ Len(feed) < TruncFeedLen
    /\ \E c \in TruncSamples : feed' = Append(feed, c)
    /\ UNCHANGED <<summaries, daily_forecasts>>
    /\ UNCHANGED toolVars
    /\ UNCHANGED modelVars

\* the provider's feed grows by one sample of the temperature family
AddTempSample ==
    /\ Building
    /\ Len(feed) < MaxLen
    /\ \E c \in TempSamples : feed' = Append(feed, c)
    /\ UNCHANGED <<summaries, daily_forecasts>>
    /\ UNCHANGED toolVars
    /\ UNCHANGED modelVars

\* the provider's feed grows by one sample of the condition family
AddCondSample ==
    /\ Building
    /\ Len(feed) < MaxLen
    /\ \E c \in CondSamples : feed' = Append(feed, c)
    /\ UNCHANGED <<summaries, daily_forecasts>>
    /\ UNCHANGED toolVars
    /\ UNCHANGED modelVars

\* both aggregations are applied to the same feed:
\* WeatherForecastData(forecast_conditions=feed).get_daily_summaries() and the
\* grouping and aggregation of get_forecast on data["list"] = feed
Aggregate ==
    /\ Building
    /\ \E r \in get_daily_summaries(feed) : summaries' = r
    /\ \E r \in AggregateForecast(feed) : daily_forecasts' = Returned(r)
    /\ UNCHANGED feed
    /\ UNCHANGED toolVars
    /\ UNCHANGED modelVars

NextTrunc == AddTruncSample \/ Aggregate
NextTemp == AddTempSample \/ Aggregate
NextCond == AddCondSample \/ Aggregate

SpecTrunc == Init /\ [][NextTrunc]_vars
SpecTemp == Init /\ [][NextTemp]_vars
SpecCond == Init /\ [][NextCond]_vars
SpecTools == Init /\ [][NextTools]_vars

-----------------------------------------------------------------------------
(* The validated dataclasses of models/weather_models.py *)

MinLatitude == -90
MaxLatitude == 90
MinLongitude == -180
MaxLongitude == 180

\* Location(latitude, longitude) with __post_init__, boundaries excluded
LocationExclusive(latitude, longitude) ==
    IF ~(-90 < latitude /\ latitude < 90) THEN Raised("ValueError")
    ELSE IF ~(-180 < longitude /\ longitude < 180) THEN Raised("ValueError")
    ELSE Returned([latitude |-> latitude, longitude |-> longitude])

\* Location(latitude, longitude) with __post_init__
Location_post_init(latitude, longitude) ==
    IF ~(MinLatitude <= latitude /\ latitude <= MaxLatitude) THEN Raised("ValueError")
    ELSE IF ~(MinLongitude <= longitude /\ longitude <= MaxLongitude) THEN Raised("ValueError")
    ELSE Returned([latitude |-> latitude, longitude |-> longitude])

ForecastLength == 5

\* the characters str.strip() removes, and one it keeps
Whitespace == {" ", "\n"}
Chars == Whitespace \cup {"a"}

RECURSIVE LStrip(_)
LStrip(s) == IF s = <<>> \/ Head(s) \notin Whitespace THEN s ELSE LStrip(Tail(s))

RECURSIVE RStrip(_)
RStrip(s) ==
    IF s = <<>> \/ s[Len(s)] \notin Whitespace THEN s
    ELSE RStrip(SubSeq(s, 1, Len(s) - 1))

\* str.strip()
Strip(s) == RStrip(LStrip(s))

\* the ai_narrative argument: left out of the call, None, or a text
Omitted == [kind |-> "omitted", chars |-> <<>>]
NoneNarrative == [kind |-> "None", chars |-> <<>>]
Text(chars) == [kind |-> "str", chars |-> chars]

\* WeatherForecast(...) with __post_init__, testing the narrative unstripped
WeatherForecastNoStrip(daily_summaries, ai_narrative) ==
    IF ai_narrative.kind = "omitted" THEN Raised("TypeError")
    ELSE IF Len(daily_summaries) # 5 THEN Raised("ValueError")
    ELSE IF ai_narrative.kind = "None" THEN Raised("AttributeError")
    ELSE IF ai_narrative.chars = <<>> THEN Raised("ValueError")
    ELSE Returned([daily_summaries |-> daily_summaries,
                   ai_narrative |-> ai_narrative.chars])

\* WeatherForecast(location, daily_summaries, ai_narrative, style) with
\* __post_init__; ai_narrative is a field without a default, and None has no
\* strip()
WeatherForecast_post_init(daily_summaries, ai_narrative) ==
    IF ai_narrative.kind = "omitted" THEN Raised("TypeError")
    ELSE IF Len(daily_summaries) # ForecastLength THEN Raised("ValueError")
    ELSE IF ai_narrative.kind = "None" THEN Raised("AttributeError")
    ELSE IF Strip(ai_narrative.chars) = <<>> THEN Raised("ValueError")
    ELSE Returned([daily_summaries |-> daily_summaries,
                   ai_narrative |-> ai_narrative.chars])

\* the coordinates within MaxBeyond degrees of a boundary, and the origin
Around(x) == (x - MaxBeyond)..(x + MaxBeyond)
Latitudes == Around(MinLatitude) \cup {0} \cup Around(MaxLatitude)
Longitudes == Around(MinLongitude) \cup {0} \cup Around(MaxLongitude)

\* n valid daily summaries, one per day
SummariesOfDays(n) ==
    [i \in 1..n |-> DailyWeatherSummary(i, 1, 0, <<"rain">>).value]

Narratives ==
    {Omitted, NoneNarrative}
      \cup {Text(c) : c \in UNION {[1..n -> Chars] : n \in 0..MaxNarrative}}

NewLocation ==
    /\ \E latitude \in Latitudes : \E longitude \in Longitudes :
         built' = [cls |-> "Location", args |-> <<latitude, longitude>>,
                   outcome |-> Location_post_init(latitude, longitude)]
    /\ UNCHANGED aggVars
    /\ UNCHANGED toolVars

NewWeatherForecast ==
    /\ \E n \in 0..MaxSummaries : \E ai_narrative \in Narratives :
         built' = [cls |-> "WeatherForecast",
                   args |-> <<SummariesOfDays(n), ai_narrative>>,
                   outcome |-> WeatherForecast_post_init(SummariesOfDays(n), ai_narrative)]
    /\ UNCHANGED aggVars
    /\ UNCHANGED toolVars

NextModels == NewLocation \/ NewWeatherForecast

SpecModels == Init /\ [][NextModels]_vars
-----------------------------------------------------------------------------
(* Properties of the daily aggregation *)

IsReturned(r) == r.state = "returned"

StrictlyIncreasingDates(res) ==
    \A i \in DOMAIN res : \A j \in DOMAIN res : i < j => res[i].date < res[j].date

\* C1 (as stated): on a non-empty feed both aggregations return at most
\* horizon summaries, in strictly increasing date order, each with its maximum
\* temperature at or above its minimum temperature.
C1_AggregationBounds ==
    feed # <<>> =>
      /\ IsReturned(summaries) =>
           /\ Len(summaries.value) <= EXPECTED_FORECAST_DAYS
           /\ StrictlyIncreasingDates(summaries.value)
           /\ \A i \in DOMAIN summaries.value :
                summaries.value[i].max_temperature >= summaries.value[i].min_temperature
      /\ IsReturned(daily_forecasts) =>
           /\ Len(daily_forecasts.value) <= EXPECTED_FORECAST_DAYS
           /\ StrictlyIncreasingDates(daily_forecasts.value)
           /\ \A i \in DOMAIN daily_forecasts.value :
                daily_forecasts.value[i].temp_high >= daily_forecasts.value[i].temp_low

DateCount(res, d) == Cardinality({i \in DOMAIN res : res[i].date = d})

\* d is one of the horizon earliest dates of f
AmongEarliest(f, d) ==
    Cardinality({f[i].date : i \in {j \in DOMAIN f : f[j].date < d}}) < EXPECTED_FORECAST_DAYS

SamplesOn(f, d) == Cardinality({i \in DOMAIN f : f[i].date = d})

OneSummaryPerDate(f, res) ==
    \A i \in DOMAIN f :
      DateCount(res, f[i].date) = IF AmongEarliest(f, f[i].date) THEN 1 ELSE 0

\* C2: every date with at least one sample gets exactly one summary, and is
\* absent from the result only when it is not among the horizon earliest dates.
C2_OneSummaryPerDate ==
    /\ IsReturned(summaries) => OneSummaryPerDate(feed, summaries.value)
    /\ IsReturned(daily_forecasts) => OneSummaryPerDate(feed, daily_forecasts.value)

\* both aggregations ran on a feed holding a date with one sample and a date
\* with several
C2_Witness ==
    /\ IsReturned(summaries) /\ IsReturned(daily_forecasts)
    /\ \E i \in DOMAIN feed : SamplesOn(feed, feed[i].date) = 1
    /\ \E i \in DOMAIN feed : SamplesOn(feed, feed[i].date) > 1
    /\ \E i \in DOMAIN feed : DateCount(summaries.value, feed[i].date) = 1
                                /\ SamplesOn(feed, feed[i].date) = 1

DistinctDates(f) == Cardinality({f[i].date : i \in DOMAIN f})

\* the number of dates of f earlier than d
Rank(f, d) == Cardinality({f[i].date : i \in {j \in DOMAIN f : f[j].date < d}})

KeepsEarliest(f, res) ==
    /\ Len(res) = EXPECTED_FORECAST_DAYS
    /\ \A k \in DOMAIN res :
         /\ \E i \in DOMAIN f : f[i].date = res[k].date
         /\ Rank(f, res[k].date) = k - 1

\* C3: with more distinct dates than the horizon, the result holds exactly the
\* horizon earliest dates, in ascending order.
C3_TruncationKeepsEarliest ==
    DistinctDates(feed) > EXPECTED_FORECAST_DAYS =>
      /\ IsReturned(summaries) => KeepsEarliest(feed, summaries.value)
      /\ IsReturned(daily_forecasts) => KeepsEarliest(feed, daily_forecasts.value)

\* both aggregations ran on a feed with more dates than the horizon, fed out of
\* date order
C3_Witness ==
    /\ DistinctDates(feed) > EXPECTED_FORECAST_DAYS
    /\ feed[1].date > feed[Len(feed)].date
    /\ IsReturned(summaries) /\ Len(summaries.value) = EXPECTED_FORECAST_DAYS
    /\ IsReturned(daily_forecasts) /\ Len(daily_forecasts.value) = EXPECTED_FORECAST_DAYS

\* the descriptions of date d in order of first appearance in f
FirstSeen(f, d) ==
    LET g == SelectSeq(f, LAMBDA c : c.date = d)
    IN Unique([i \in DOMAIN g |-> g[i].description], <<>>)

\* "A", "A and B", "A, B, and C" over the first-seen order
Phrase(u) ==
    IF Len(u) = 1 THEN u[1]
    ELSE IF Len(u) = 2 THEN u[1] \o " and " \o u[2]
    ELSE JoinWith(", ", SubSeq(u, 1, Len(u) - 1)) \o ", and " \o u[Len(u)]

\* C4 (as stated): a day's summary lists its distinct conditions in order of
\* first appearance, and its phrase is "A", "A and B" or "A, B, and C" in that
\* order; conditions rain, rain, clear give "rain and clear".
C4_FirstSeenConditions ==
    IsReturned(summaries) =>
      \A k \in DOMAIN summaries.value :
        /\ summaries.value[k].weather_conditions = FirstSeen(feed, summaries.value[k].date)
        /\ conditions_summary(summaries.value[k].weather_conditions)
             = Phrase(FirstSeen(feed, summaries.value[k].date))
-----------------------------------------------------------------------------
(* Properties of the tool handlers *)

Done == completed.pc = "done"
Failed == completed.exc.type # "none"

\* C5 (as stated): whenever a collaborator failed during an invocation, the
\* tool's reply is a failure message embedding the failure reason.
C5_EveryFailureEmbedsReason ==
    (Done /\ Failed) =>
      /\ completed.reply.outcome = "failure"
      /\ completed.reply.reason # ""

\* C5 (amended): a failure while fetching current conditions or the forecast
\* ends in a failure message that embeds the description of the error the
\* weather service raised; a failure during narrative generation ends in the
\* fallback reply; every invocation ends in a text reply.
C5_FailuresBecomeText ==
    Done =>
      /\ completed.reply.outcome \in {"success", "failure"}
      /\ (Failed /\ completed.op \in {"current", "forecast"}) =>
           /\ completed.reply.outcome = "failure"
           /\ completed.raised.type # "none"
           /\ completed.reply.reason = completed.raised.msg
           /\ completed.reply.reason # ""
      /\ (Failed /\ completed.op = "insights") =>
           /\ completed.reply.outcome = "success"
           /\ completed.reply.insights.source = "fallback"
      /\ ~Failed => completed.reply.outcome = "success"

\* get_current_weather met HTTP 404 and replied with the not-found message
C5_Witness ==
    /\ Done
    /\ completed.tool = "get_current_weather"
    /\ completed.exc.type = "HTTPError" /\ completed.exc.status = 404
    /\ completed.reply.outcome = "failure"
    /\ completed.reply.reason = "Location 'Seattle' not found"

\* C6: when current conditions and the forecast were obtained and narrative
\* generation fails, get_weather_insights replies successfully with the
\* fallback built from the current conditions.
C6_NarrativeFailureFallsBack ==
    (Done /\ Failed /\ completed.tool = "get_weather_insights"
          /\ IsReturned(completed.weather_data) /\ IsReturned(completed.forecast_data)) =>
      /\ completed.reply.outcome = "success"
      /\ completed.reply.insights.source = "fallback"
      /\ completed.reply.insights.temp = completed.weather_data.value.temp
      /\ completed.reply.insights.description = completed.weather_data.value.description

\* the language-model key could not be fetched and the insights reply carries
\* the fallback
C6_Witness ==
    /\ Done /\ completed.tool = "get_weather_insights"
    /\ completed.exc.msg = "Unable to retrieve secret OPENAI-API-KEY"
    /\ IsReturned(completed.weather_data) /\ IsReturned(completed.forecast_data)
    /\ completed.reply.outcome = "success"
    /\ completed.reply.insights.source = "fallback"
    /\ completed.reply.insights.temp = 2

\* C7 (as stated): the forecast operation never returns fewer than horizon
\* daily entries; a sparse feed makes it fail.
C7_SparseFeedFails ==
    /\ IsReturned(completed.forecast_data) =>
         Len(completed.forecast_data.value) = EXPECTED_FORECAST_DAYS
    /\ \A t \in Tasks :
         IsReturned(tasks[t].forecast_data) =>
           Len(tasks[t].forecast_data.value) = EXPECTED_FORECAST_DAYS

\* the error the operation of k raises when its request ends in HTTP status st
RaisedOnStatus(k, st) ==
    ServiceExceptClause([k EXCEPT !.pc = "except",
                           !.exc = Exc("HTTPError", ToString(st) \o " Error", st)]).raised

\* C8 (as stated): the error a weather operation raises on HTTP 404 differs
\* from the error it raises on any other failing status.
C8_NotFoundDistinguished ==
    (Done /\ completed.op \in {"current", "forecast"}
          /\ completed.exc.type = "HTTPError" /\ completed.exc.status = 404) =>
      \A st \in {x \in HttpOutcomes : x >= 400 /\ x # 404} :
        completed.raised # RaisedOnStatus(completed, st)

KeyPopulated(name) ==
    IF name = OPENAI_API_KEY_SECRET THEN ai_api_key # None ELSE weather_api_key # None

\* C9: each secret is fetched at most once, and once its key is cached the
\* secret store is not called for it again.
C9_SecretFetchedOnce ==
    [][\A name \in SecretNames :
         /\ store_fetches'[name] <= 1
         /\ KeyPopulated(name) => store_calls'[name] = store_calls[name]]_vars

\* a later invocation found the weather key cached: one store call in all
C9_Witness ==
    /\ Done
    /\ \E t \in Tasks : tasks[t].pc = "session" /\ tasks[t].op \in {"current", "forecast"}
    /\ store_calls[OPENWEATHER_API_KEY_SECRET] = 1
    /\ store_fetches[OPENWEATHER_API_KEY_SECRET] = 1

\* the transport has handed its outcome for a response to the service
Surfaced(k) ==
    \/ k.pc = "raise_for_status"
    \/ k.pc = "except" /\ k.exc.type = "RetryError"

\* C10 (as stated): a response with status 429, 500, 502, 503 or 504 reaches
\* the caller only once 3 attempts have failed.
C10_TransientRetried ==
    \A t \in Tasks :
      (Surfaced(tasks[t]) /\ tasks[t].status \in StatusForcelist) =>
        tasks[t].attempts >= 3

\* the insights handler k is at a step its predecessor j allows, and holds
\* the results of the steps before it
InOrder(j, k) ==
    CASE k.op = "current" ->
           k.weather_data = Unset /\ k.forecast_data = Unset
      [] k.op = "forecast" ->
           /\ j.tool = k.tool /\ j.op \in {"current", "forecast"}
           /\ IsReturned(k.weather_data) /\ k.forecast_data = Unset
      [] k.op = "insights" ->
           /\ j.tool = k.tool /\ j.op \in {"forecast", "insights"}
           /\ IsReturned(k.weather_data) /\ IsReturned(k.forecast_data)

\* the insights invocation k ended in a weather fetch with the failure message,
\* or in the narrative step with both weather results in hand
EndsInOrder(k) ==
    IF k.op \in {"current", "forecast"}
    THEN /\ k.reply.outcome = "failure"
         /\ k.reply.head = "Unable to generate insights for " \o Location \o ": "
         /\ k.reply.reason = k.raised.msg
         /\ k.forecast_data = Unset
         /\ k.op = "current" => k.weather_data = Unset
    ELSE /\ k.op = "insights"
         /\ IsReturned(k.weather_data) /\ IsReturned(k.forecast_data)
         /\ k.reply.outcome = "success"

\* C14: get_weather_insights fetches the current conditions, then the
\* forecast, then generates the narrative; the narrative step starts only with
\* both weather results returned, and a failing weather fetch ends the
\* invocation with the failure message, without the narrative step and without
\* the fallback text.
C14_InsightsInOrder ==
    [][/\ \A t \in Tasks :
            tasks'[t].tool = "get_weather_insights" => InOrder(tasks[t], tasks'[t])
       /\ completed'.tool = "get_weather_insights" => EndsInOrder(completed')]_vars

\* an insights invocation whose forecast fetch failed after the current
\* conditions had been returned
C14_Witness ==
    /\ Done
    /\ completed.tool = "get_weather_insights"
    /\ completed.op = "forecast"
    /\ IsReturned(completed.weather_data)
    /\ completed.reply.outcome = "failure"

SecretFailure(name) == Exc("RuntimeError", "Unable to retrieve secret " \o name, 0)

\* one step keeps the rules of the cached keys: a key is unset or the secret
\* value, a failing store call leaves the key unset and fails the caller, an
\* answering store call sets the key, and a service whose key is unset calls
\* the store
KeyCacheStep ==
    /\ weather_api_key' \in {None, SecretValue(OPENWEATHER_API_KEY_SECRET)}
    /\ ai_api_key' \in {None, SecretValue(OPENAI_API_KEY_SECRET)}
    /\ \A name \in SecretNames :
         /\ (store_calls'[name] # store_calls[name]
               /\ store_fetches'[name] = store_fetches[name]) =>
              /\ ~KeyPopulated(name)
              /\ weather_api_key' = weather_api_key /\ ai_api_key' = ai_api_key
              /\ \E t \in Tasks :
                   /\ tasks[t].pc = "get_secret"
                   /\ tasks'[t].pc = "except"
                   /\ tasks'[t].exc = SecretFailure(name)
         /\ store_fetches'[name] # store_fetches[name] =>
              /\ ~KeyPopulated(name)
              /\ store_calls'[name] = store_calls[name] + 1
              /\ IF name = OPENAI_API_KEY_SECRET
                 THEN ai_api_key' = SecretValue(name)
                 ELSE weather_api_key' = SecretValue(name)
    /\ \A t \in Tasks :
         (tasks[t].pc = "key" /\ tasks'[t] # tasks[t]
            /\ ~KeyPopulated(SecretNameOf(tasks[t].op))) =>
           tasks'[t].pc = "get_secret"
    /\ \A t \in Tasks :
         (tasks[t].pc = "get_secret" /\ tasks'[t] # tasks[t]) =>
           store_calls'[SecretNameOf(tasks[t].op)]
             = store_calls[SecretNameOf(tasks[t].op)] + 1

FailedOnSecret(k) == \E name \in SecretNames : k.exc = SecretFailure(name)

\* C15 (as stated): a failed secret retrieval is never stored as the key and
\* leaves the key unset, the invocation it fails ends in an error, and the
\* next invocation calls the secret store again and gets its key once the
\* store answers.
C15_SecretFailureEndsInError ==
    [][/\ KeyCacheStep
       /\ FailedOnSecret(completed') => completed'.reply.outcome = "failure"]_vars

\* C15 (amended): a failed secret retrieval is never stored as the key and
\* leaves the key unset; a weather operation it fails raises and the tool
\* replies with the failure message, while narrative generation returns its
\* fallback text and the tool replies with it; the next invocation calls the
\* secret store again and gets its key once the store answers.
C15_SecretFailureNotCached ==
    [][/\ KeyCacheStep
       /\ FailedOnSecret(completed') =>
            IF completed'.op = "insights"
            THEN /\ completed'.reply.outcome = "success"
                 /\ completed'.reply.insights
                      = FallbackInsights(completed'.weather_data.value)
            ELSE /\ completed'.reply.outcome = "failure"
                 /\ completed'.raised.type = "RuntimeError"]_vars

\* the store failed once for the weather key, and a later call fetched it
C15_Witness ==
    /\ FailedOnSecret(completed)
    /\ store_calls[OPENWEATHER_API_KEY_SECRET] = 2
    /\ store_fetches[OPENWEATHER_API_KEY_SECRET] = 1
    /\ weather_api_key = SecretValue(OPENWEATHER_API_KEY_SECRET)

-----------------------------------------------------------------------------
(* Properties of the validated data model *)

\* the samples of some date of f have their highest maximum below their
\* lowest minimum
HasInvertedDay(f) ==
    \E i \in DOMAIN f :
      \A j \in DOMAIN f : \A k \in DOMAIN f :
        (f[j].date = f[i].date /\ f[k].date = f[i].date) => f[j].temp_max < f[k].temp_min

\* C11 (as stated): when the aggregation meets a day whose maximum is below
\* its minimum, it fails with a DataProcessingError, and no summary with its
\* maximum below its minimum is ever emitted.
C11_ViolationsPropagate ==
    /\ HasInvertedDay(feed) =>
         /\ summaries # Unset => summaries = Raised("DataProcessingError")
         /\ daily_forecasts # Unset => daily_forecasts = Raised("DataProcessingError")
    /\ IsReturned(summaries) =>
         \A i \in DOMAIN summaries.value :
           /\ summaries.value[i].max_temperature >= summaries.value[i].min_temperature
           /\ summaries.value[i].weather_conditions # <<>>
    /\ IsReturned(daily_forecasts) =>
         \A i \in DOMAIN daily_forecasts.value :
           daily_forecasts.value[i].temp_high >= daily_forecasts.value[i].temp_low

HasText(ai_narrative) ==
    /\ ai_narrative.kind = "str"
    /\ \E i \in DOMAIN ai_narrative.chars : ai_narrative.chars[i] \notin Whitespace

\* C12 (as stated): a WeatherForecast is constructed exactly when it holds 5
\* daily summaries and its narrative is either absent or a text that is not
\* empty and not only whitespace.
C12_NarrativeOptional ==
    built.cls = "WeatherForecast" =>
      (IsReturned(built.outcome) <=>
         /\ Len(built.args[1]) = 5
         /\ built.args[2].kind \in {"omitted", "None"} \/ HasText(built.args[2]))

\* C12 (amended): a WeatherForecast is constructed exactly when it holds 5
\* daily summaries and its narrative is a text that is not empty and not only
\* whitespace; without a narrative the construction fails.
C12_NarrativeRequired ==
    built.cls = "WeatherForecast" =>
      /\ IsReturned(built.outcome) <=>
           (Len(built.args[1]) = 5 /\ HasText(built.args[2]))
      /\ IsReturned(built.outcome) =>
           /\ Len(built.outcome.value.daily_summaries) = 5
           /\ built.outcome.value.ai_narrative = built.args[2].chars

C12_Witness ==
    /\ built.cls = "WeatherForecast"
    /\ Len(built.args[1]) = 5
    /\ built.args[2].kind = "None"
    /\ built.outcome = Raised("AttributeError")

\* C13: a Location is constructed exactly when its latitude is in [-90, 90]
\* and its longitude is in [-180, 180], boundaries included, and a constructed
\* Location holds the coordinates it was given.
C13_LocationInRange ==
    built.cls = "Location" =>
      /\ IsReturned(built.outcome) <=>
           /\ built.args[1] >= -90 /\ built.args[1] <= 90
           /\ built.args[2] >= -180 /\ built.args[2] <= 180
      /\ IsReturned(built.outcome) =>
           /\ built.outcome.value.latitude = built.args[1]
           /\ built.outcome.value.longitude = built.args[2]
           /\ built.outcome.value.latitude \in -90..90
           /\ built.outcome.value.longitude \in -180..180

C13_Witness ==
    /\ built.cls = "Location"
    /\ built.args = <<90, -180>>
    /\ IsReturned(built.outcome)
====
